---------------------------- MODULE Spec2Model ----------------------------
(***************************************************************************)
(* A model of the LAN peer discovery package (discovery.go, tools.go):     *)
(* option resolution, the interface selector, the Discoverer's receive     *)
(* cycle and the Broadcaster's send loop.                                  *)
(*                                                                         *)
(* Conventions                                                             *)
(*  - a Go string that the code parses (Port, a source address) is a       *)
(*    sequence of one-character strings; a string the code only passes on  *)
(*    is a TLA+ string;                                                    *)
(*  - a []byte is a record [nil, b]: nil tells the nil slice from the      *)
(*    empty one, b is the sequence of bytes;                               *)
(*  - a time.Duration is an integer number of milliseconds;                *)
(*  - there is no clock: a timer that has been armed fires at some later   *)
(*    step, chosen by the scheduler.                                       *)
(***************************************************************************)
EXTENDS Integers, Sequences, FiniteSets, TLC

VARIABLES
    options,    \* the Options value the Discover (or the resolver) points to
    optHist,    \* history: the values options took in SpecOpt, oldest first
    allIfaces,  \* the host's interface table, as net.Interfaces() returns it
    ifErr,      \* whether net.Interfaces() fails on this host
    ipv4,       \* SpecIf: the family argument of FilterInterfaces
    filtered,   \* SpecIf: whether FilterInterfaces was called, and what it returned
    received,   \* Discover.received: a map from host to byte
    done,       \* Discover.done: the buffered channel (capacity 1), oldest first
    mu,         \* Discover's lock: 0 when free, else the run whose receive task holds it
    mpc,        \* where the caller of DiscoverBroadcast is
    runNo,      \* how many times DiscoverBroadcast was called on this Discover
    ifaces,     \* receive's local: the selected interfaces
    sock,       \* per run, the socket c: its state, the datagrams it got, how many were read
    timer,      \* per run, the time.AfterFunc timer of receive
    gpc,        \* per run, where the receive goroutine is
    gloc,       \* per run, the receive goroutine's locals (srcHost, err)
    snap,       \* the map as the result loop found it when it last began to range
    ds,         \* the result slice of DiscoverBroadcast
    retErr,     \* the error DiscoverBroadcast returned
    late,       \* history: the running call's timer fired with a datagram still
                \* unprocessed, or a datagram arrived after it fired
    boptions,   \* the Options value the Broadcast points to
    boptHist,   \* history: the values boptions took, oldest first
    bpc,        \* where StartBroadcast is
    bifaces,    \* StartBroadcast's local: the selected interfaces
    bsock,      \* the Broadcast's socket c: "none", "open" or "closed"
    bretErr,    \* the error StartBroadcast returned
    joined,     \* the interfaces (indices of bifaces) on which JoinGroup succeeded
    btimer,     \* the duration timer of StartBroadcast
    spc,        \* per caller of StopBroadcast, where it is
    ticks,      \* how many ticks the send loop has served
    lastTick    \* per selected interface, what the last tick did on it

optVars == <<options, optHist>>
ifVars == <<allIfaces, ifErr, ipv4, filtered>>
hostVars == <<allIfaces, ifErr>>
selVars == <<ipv4, filtered>>
dVars == <<received, done, mu, mpc, runNo, ifaces, sock, timer, gpc, gloc,
           snap, ds, retErr, late>>
bVars == <<boptions, boptHist, bpc, bifaces, bsock, bretErr, joined, btimer,
           spc, ticks, lastTick>>
vars == <<optVars, ifVars, dVars, bVars>>

-----------------------------------------------------------------------------
(* Bounds of the model *)

\* how many times option resolution is applied in SpecOpt
MaxResolve == 2
\* how many interfaces the host has in SpecIf
MaxIfaces == 2
\* how many times DiscoverBroadcast is called on one Discover
MaxRuns == 2
\* how many datagrams reach the Discover's sockets, over all calls
MaxDgrams == 2
\* how many callers of StopBroadcast there are
MaxStops == 2
\* how many ticks of the ticker the send loop serves
MaxTicks == 2

-----------------------------------------------------------------------------
(* Constants of the program *)

IPv4 == 4
IPv6 == 6
\* time.Second, in the model's unit (milliseconds)
Second == 1000

\* SpecIf: FilterInterfaces has not been called yet
NotFiltered == [called |-> FALSE, res |-> [ifaces |-> <<>>, err |-> "nil"]]

NilBytes == [nil |-> TRUE, b |-> <<>>]
Bytes(s) == [nil |-> FALSE, b |-> s]

\* []byte("hi")
DefaultPayload == Bytes(<<104, 105>>)
\* "9081"
DefaultPort == <<"9", "0", "8", "1">>
DefaultGroup4 == "239.255.255.250"
DefaultGroup6 == "ff02::c"

Runs == 1..MaxRuns

\* the locals of a receive goroutine before it has read anything
NoLocals == [srcHost |-> <<>>, err |-> "nil"]
\* a socket that was never opened
NoSocket == [st |-> "none", log |-> <<>>, rd |-> 0]

\* NewDiscover: an empty map and an empty channel of capacity 1; the caller,
\* the timers and the receive goroutines have not started
NewDiscover ==
    /\ received = <<>>
    /\ done = <<>>
    /\ mu = 0
    /\ mpc = "idle"
    /\ runNo = 0
    /\ ifaces = <<>>
    /\ sock = [r \in Runs |-> NoSocket]
    /\ timer = [r \in Runs |-> "off"]
    /\ gpc = [r \in Runs |-> "off"]
    /\ gloc = [r \in Runs |-> NoLocals]
    /\ snap = <<>>
    /\ ds = <<>>
    /\ retErr = "nil"
    /\ late = FALSE

Stoppers == 1..MaxStops

\* the Options value with every field unset
ZeroOptions ==
    [Limit |-> 0, TimeLimit |-> 0, IPVersion |-> 0, Duration |-> 0,
     BroadcastDelay |-> 0, Payload |-> NilBytes, Port |-> <<>>,
     MulticastAddress |-> "", payloadLen |-> 0]

\* NewBroadcast: StartBroadcast has not been called, nor StopBroadcast
NewBroadcast ==
    /\ boptHist = <<boptions>>
    /\ bpc = "idle"
    /\ bifaces = <<>>
    /\ bsock = "none"
    /\ bretErr = "nil"
    /\ joined = {}
    /\ btimer = "off"
    /\ spc = [c \in Stoppers |-> "idle"]
    /\ ticks = 0
    /\ lastTick = <<>>

\* no Broadcast is under study
NoBroadcast ==
    /\ boptions = ZeroOptions
    /\ NewBroadcast

\* no Discover is under study
NoDiscover ==
    /\ options = ZeroOptions
    /\ optHist = <<options>>
    /\ NewDiscover

-----------------------------------------------------------------------------
(* Option resolution *)

\* the mutation: the default limit replaces every non-positive limit
initOptions_LimitNonPositive(o) ==
    LET o1 == IF o.IPVersion = 0 THEN [o EXCEPT !.IPVersion = IPv4] ELSE o
        o2 == IF o1.Limit <= 0 THEN [o1 EXCEPT !.Limit = 1] ELSE o1
        o3 == IF o2.TimeLimit = 0 THEN [o2 EXCEPT !.TimeLimit = 10 * Second] ELSE o2
        o4 == IF o3.Duration = 0 THEN [o3 EXCEPT !.Duration = (-1) * Second] ELSE o3
        o5 == IF o4.BroadcastDelay = 0 THEN [o4 EXCEPT !.BroadcastDelay = Second] ELSE o4
        o6 == IF o5.Payload.nil THEN [o5 EXCEPT !.Payload = DefaultPayload] ELSE o5
        o7 == IF o6.Port = <<>> THEN [o6 EXCEPT !.Port = DefaultPort] ELSE o6
        o8 == IF o7.MulticastAddress = ""
              THEN IF o7.IPVersion = IPv4
                   THEN [o7 EXCEPT !.MulticastAddress = DefaultGroup4]
                   ELSE [o7 EXCEPT !.MulticastAddress = DefaultGroup6]
              ELSE o7
    IN  [o8 EXCEPT !.payloadLen = Len(o8.Payload.b)]

\* initOptions: each field that holds its zero value gets its default, in the
\* order of the code; payloadLen is recomputed last.
initOptions(o) ==
    LET o1 == IF o.IPVersion = 0 THEN [o EXCEPT !.IPVersion = IPv4] ELSE o
        o2 == IF o1.Limit = 0 THEN [o1 EXCEPT !.Limit = 1] ELSE o1
        o3 == IF o2.TimeLimit = 0 THEN [o2 EXCEPT !.TimeLimit = 10 * Second] ELSE o2
        o4 == IF o3.Duration = 0 THEN [o3 EXCEPT !.Duration = (-1) * Second] ELSE o3
        o5 == IF o4.BroadcastDelay = 0 THEN [o4 EXCEPT !.BroadcastDelay = Second] ELSE o4
        o6 == IF o5.Payload.nil THEN [o5 EXCEPT !.Payload = DefaultPayload] ELSE o5
        o7 == IF o6.Port = <<>> THEN [o6 EXCEPT !.Port = DefaultPort] ELSE o6
        o8 == IF o7.MulticastAddress = ""
              THEN IF o7.IPVersion = IPv4
                   THEN [o7 EXCEPT !.MulticastAddress = DefaultGroup4]
                   ELSE [o7 EXCEPT !.MulticastAddress = DefaultGroup6]
              ELSE o7
    IN  [o8 EXCEPT !.payloadLen = Len(o8.Payload.b)]

\* the Options values a caller may hand over: every field either unset (its
\* zero value) or set; payloadLen is unexported and may hold a stale value.
OptionsInputs ==
    [ Limit            : {-1, 0, 1, 2},
      TimeLimit        : {0, 5 * Second},
      IPVersion        : {0, IPv4, IPv6},
      Duration         : {(-2) * Second, 0, 3 * Second},
      BroadcastDelay   : {0, 2 * Second},
      Payload          : {NilBytes, Bytes(<<>>), Bytes(<<1, 0>>)},
      Port             : {<<>>, <<"d", "o", "m", "a", "i", "n">>},
      MulticastAddress : {"", "224.0.0.9"},
      payloadLen       : {0, 5} ]

InitOpt ==
    /\ options \in OptionsInputs
    /\ optHist = <<options>>
    /\ allIfaces = <<>>
    /\ ifErr = FALSE
    /\ ipv4 = TRUE
    /\ filtered = NotFiltered
    /\ NewDiscover
    /\ NoBroadcast

\* one call of initOptions on the shared Options value
Resolve ==
    /\ Len(optHist) <= MaxResolve
    /\ options' = initOptions(options)
    /\ optHist' = Append(optHist, options')
    /\ UNCHANGED <<ifVars, dVars, bVars>>

NextOpt == Resolve

SpecOpt == InitOpt /\ [][NextOpt]_vars

-----------------------------------------------------------------------------
(* The interface selector (tools.go) *)

\* net.FlagUp and net.FlagBroadcast, the two bits FilterInterfaces tests
FlagUp == 1
FlagBroadcast == 2
\* the flags of an interface that is up and has multicast (bit 16) but no
\* broadcast, as a loopback interface
UpNoBroadcast == FlagUp + 16

\* flags & bit # 0
HasFlag(flags, bit) == (flags \div bit) % 2 = 1

\* net.IP values: a byte sequence of length 0 (nil), 4 or 16
NilIP == <<>>
IP4a == <<10, 0, 0, 1>>
IP4in6 == <<0, 0, 0, 0, 0, 0, 0, 0, 0, 0, 255, 255, 10, 0, 0, 2>>
IP6a == <<254, 128, 0, 0, 0, 0, 0, 0, 0, 0, 0, 0, 0, 0, 0, 1>>

\* net.IP.To4: the 4-byte form of an IPv4 address, or nil (the empty sequence)
To4(ip) ==
    IF Len(ip) = 4 THEN ip
    ELSE IF /\ Len(ip) = 16
            /\ \A i \in 1..10 : ip[i] = 0
            /\ ip[11] = 255
            /\ ip[12] = 255
         THEN SubSeq(ip, 13, 16)
         ELSE NilIP

\* an entry of iface.Addrs(): a *net.IPNet, possibly nil, holding an IP
NilAddr == [isNil |-> TRUE, IP |-> NilIP]
Addr(ip) == [isNil |-> FALSE, IP |-> ip]

\* the inner loop of FilterInterfaces: some address of the interface is
\* non-nil, has a non-nil IP and is of the wanted family
Supported(iface, wantV4) ==
    \E j \in 1..Len(iface.Addrs) :
        LET addr == iface.Addrs[j]
        IN  /\ ~(addr.isNil \/ addr.IP = NilIP)
            /\ (To4(addr.IP) # NilIP) = wantV4

\* the mutation: an interface is skipped only when it is down and also lacks
\* broadcast
Selected_EitherFlag(iface, wantV4) ==
    /\ ~(~HasFlag(iface.Flags, FlagUp) /\ ~HasFlag(iface.Flags, FlagBroadcast))
    /\ Supported(iface, wantV4)

\* the body of the outer loop: whether the interface is appended
Selected(iface, wantV4) ==
    /\ ~(~HasFlag(iface.Flags, FlagUp) \/ ~HasFlag(iface.Flags, FlagBroadcast))
    /\ Supported(iface, wantV4)

\* FilterInterfaces(ipv4): (ifaces, err); on an enumeration error the list
\* is nil (empty) and the error is returned, otherwise the selected
\* interfaces in the order of the table
FilterInterfaces(table, enumErr, wantV4) ==
    IF enumErr
    THEN [ifaces |-> <<>>, err |-> "enumeration failed"]
    ELSE [ifaces |-> SelectSeq(table, LAMBDA iface : Selected(iface, wantV4)),
          err |-> "nil"]

\* synthetic interface descriptors
IfaceFlags == {0, FlagUp, FlagBroadcast, FlagUp + FlagBroadcast, UpNoBroadcast}
IfaceAddrs == {<<>>, <<Addr(NilIP)>>, <<Addr(IP4a)>>, <<Addr(IP6a)>>,
               <<Addr(IP4in6)>>, <<Addr(IP6a), Addr(IP4a)>>,
               <<NilAddr, Addr(IP4a)>>}
IfaceNames == <<"eth0", "eth1", "eth2", "eth3">>

\* the tables of n interfaces: the i-th is named IfaceNames[i]
Tables(n) ==
    { [i \in 1..n |-> [Name |-> IfaceNames[i], Flags |-> fa[i][1], Addrs |-> fa[i][2]]] :
        fa \in [1..n -> IfaceFlags \X IfaceAddrs] }

InitIf ==
    /\ \E n \in 0..MaxIfaces : allIfaces \in Tables(n)
    /\ ifErr \in BOOLEAN
    /\ ipv4 \in BOOLEAN
    /\ filtered = NotFiltered
    /\ NoDiscover
    /\ NoBroadcast

\* one call FilterInterfaces(ipv4)
Filter ==
    /\ ~filtered.called
    /\ filtered' = [called |-> TRUE, res |-> FilterInterfaces(allIfaces, ifErr, ipv4)]
    /\ UNCHANGED <<allIfaces, ifErr, ipv4, optVars, dVars, bVars>>

NextIf == Filter

SpecIf == InitIf /\ [][NextIf]_vars

-----------------------------------------------------------------------------
(* Strings of the net and strconv packages, as far as the code uses them *)

Digits == <<"0", "1", "2", "3", "4", "5", "6", "7", "8", "9">>
IsDigit(c) == \E i \in 1..10 : Digits[i] = c

\* strconv.Itoa of a number below 100
Itoa(n) == IF n < 10 THEN <<Digits[n + 1]>>
           ELSE <<Digits[(n \div 10) + 1], Digits[(n % 10) + 1]>>

\* whether strconv.Atoi(s) returns no error: an optional sign, then one or
\* more decimal digits
AtoiOk(s) ==
    LET body == IF Len(s) > 0 /\ s[1] \in {"+", "-"} THEN Tail(s) ELSE s
    IN  /\ Len(body) > 0
        /\ \A i \in 1..Len(body) : IsDigit(body[i])

\* the service names the resolver knows for udp (net.LookupPort): "domain" is
\* in the table built into the net package
KnownServices == {<<"d", "o", "m", "a", "i", "n">>}

\* whether the port of the address given to net.ListenPacket resolves: a
\* number, or the name of a service
PortResolves(s) == AtoiOk(s) \/ s \in KnownServices

\* the index of the first (last) c in s, 0 when there is none
IndexOf(s, c) ==
    IF \E i \in 1..Len(s) : s[i] = c
    THEN CHOOSE i \in 1..Len(s) : s[i] = c /\ \A j \in 1..(i - 1) : s[j] # c
    ELSE 0
LastIndexOf(s, c) ==
    IF \E i \in 1..Len(s) : s[i] = c
    THEN CHOOSE i \in 1..Len(s) : s[i] = c /\ \A j \in (i + 1)..Len(s) : s[j] # c
    ELSE 0

\* net.JoinHostPort: a host holding a colon or a percent sign is bracketed
JoinHostPort(host, port) ==
    IF IndexOf(host, ":") > 0 \/ IndexOf(host, "%") > 0
    THEN <<"[">> \o host \o <<"]", ":">> \o port
    ELSE host \o <<":">> \o port

\* (*net.UDPAddr).String
AddrString(a) ==
    IF a.Zone # <<>>
    THEN JoinHostPort(a.IP \o <<"%">> \o a.Zone, Itoa(a.Port))
    ELSE JoinHostPort(a.IP, Itoa(a.Port))

\* the mutation: the whole "host:port" string is taken as the host
SplitHost_KeepPort(hp) == hp

\* the host net.SplitHostPort returns ("" on an error, which the code drops):
\* the port starts after the last colon; a bracketed host must close just
\* before that colon and loses its brackets
SplitHost(hp) ==
    LET i == LastIndexOf(hp, ":")
    IN  IF i = 0 THEN <<>>
        ELSE IF hp[1] = "["
        THEN LET end == IndexOf(hp, "]")
             IN  IF end = 0 \/ end + 1 # i THEN <<>>
                 ELSE IF \/ IndexOf(SubSeq(hp, 2, Len(hp)), "[") > 0
                         \/ IndexOf(SubSeq(hp, end + 1, Len(hp)), "]") > 0
                 THEN <<>>
                 ELSE SubSeq(hp, 2, end - 1)
        ELSE LET host == SubSeq(hp, 1, i - 1)
             IN  IF \/ IndexOf(host, ":") > 0
                    \/ IndexOf(hp, "[") > 0
                    \/ IndexOf(hp, "]") > 0
                 THEN <<>>
                 ELSE host

-----------------------------------------------------------------------------
(* The Discoverer (discovery.go) *)

\* the size of the receive buffer
BufLen == 66507

\* n of ReadFrom: the datagram's length, cut to the buffer
ReadN(data) == IF Len(data) < BufLen THEN Len(data) ELSE BufLen

\* buf[:k] after a datagram was read into the zeroed buffer
BufPrefix(data, k) ==
    [i \in 1..k |-> IF i <= ReadN(data) THEN data[i] ELSE 0]

\* n > 0 && string(d.Options.Payload) == string(buf[:d.Options.payloadLen])
PayloadMatches(o, data) ==
    /\ ReadN(data) > 0
    /\ o.Payload.b = BufPrefix(data, o.payloadLen)

\* the hosts that may send to the group: two IPv4 hosts, and an IPv6
\* link-local host (with its zone) sending from two ports
Src(ip, port, zone) == [IP |-> ip, Port |-> port, Zone |-> zone]
Sources4 == { Src(<<"1", ".", "1">>, 7, <<>>), Src(<<"1", ".", "2">>, 7, <<>>) }
Sources6 == { Src(<<"f", ":", ":", "1">>, 7, <<"e">>),
              Src(<<"f", ":", ":", "1">>, 18, <<"e">>) }
SourcesOf(o) == IF o.IPVersion = IPv4 THEN Sources4 ELSE Sources6

\* the datagram bodies tried against payload p: p itself, p followed by one
\* more byte, p without its last byte, and p with its last byte changed
Bodies(p) ==
    {p, p \o <<0>>}
    \cup (IF Len(p) > 0
          THEN {SubSeq(p, 1, Len(p) - 1),
                [p EXCEPT ![Len(p)] = (p[Len(p)] + 1) % 256]}
          ELSE {})

\* the Options values the Discoverer is created with
DiscoverInputs ==
    [ Limit            : {-1, 0, 1, 2},
      TimeLimit        : {0},
      IPVersion        : {0, IPv6},
      Duration         : {0},
      BroadcastDelay   : {0},
      Payload          : {NilBytes, Bytes(<<1, 0>>)},
      Port             : {<<>>, <<"d", "o", "m", "a", "i", "n">>, <<"x">>},
      MulticastAddress : {""},
      payloadLen       : {0} ]

\* the host's interfaces: a loopback-like interface without broadcast, alone
\* or with an Ethernet interface that has addresses of both families
HostLo == [Name |-> "eth0", Flags |-> UpNoBroadcast, Addrs |-> <<Addr(IP4a)>>]
HostEth == [Name |-> "eth1", Flags |-> FlagUp + FlagBroadcast,
            Addrs |-> <<Addr(IP6a), Addr(IP4a)>>]
HostTables == {<<HostLo>>, <<HostLo, HostEth>>}

Init ==
    /\ options \in DiscoverInputs
    /\ optHist = <<options>>
    /\ allIfaces \in HostTables
    /\ ifErr \in BOOLEAN
    /\ ipv4 = TRUE
    /\ filtered = NotFiltered
    /\ NewDiscover
    /\ NoBroadcast

\* the datagrams not yet read from the socket of run r
Unread(r) == SubSeq(sock[r].log, sock[r].rd + 1, Len(sock[r].log))
\* the number of datagrams delivered so far, over all runs
Delivered == LET RECURSIVE Sum(_)
                 Sum(r) == IF r = 0 THEN 0 ELSE Len(sock[r].log) + Sum(r - 1)
             IN  Sum(MaxRuns)
\* the timer of run r has fired
Elapsed(r) == timer[r] \in {"sending", "sent"}
\* the receive goroutine of run r has nothing left to do with what arrived
Quiet(r) == gpc[r] \in {"off", "exit", "signalled"} \/ (gpc[r] = "read" /\ Unread(r) = <<>>)

\* the mutation: the socket is left open
Close_Leak(s) == s

\* defer c.Close(), run when receive returns
Close(s) == [s EXCEPT !.st = "closed"]

\* DiscoverBroadcast is called, for at most the calls-th time: initOptions,
\* ds := make(...)
Call(calls) ==
    /\ mpc \in {"idle", "returned"}
    /\ runNo < calls
    /\ runNo' = runNo + 1
    /\ options' = initOptions(options)
    /\ optHist' = Append(optHist, options')
    /\ ds' = <<>>
    /\ retErr' = "nil"
    /\ late' = FALSE
    /\ mpc' = "filter"
    /\ UNCHANGED <<bVars, ifVars, received, done, mu, ifaces, sock, timer,
                   gpc, gloc, snap>>

\* receive: FilterInterfaces; an enumeration error is returned, and so is
\* err, which is nil, when no interface was selected
DFilter ==
    /\ mpc = "filter"
    /\ LET r == FilterInterfaces(allIfaces, ifErr, options.IPVersion = IPv4)
       IN  IF r.err # "nil"
           THEN /\ mpc' = "returned"
                /\ retErr' = r.err
                /\ ifaces' = r.ifaces
           ELSE IF Len(r.ifaces) = 0
           THEN /\ mpc' = "collect"
                /\ retErr' = r.err
                /\ ifaces' = r.ifaces
           ELSE /\ mpc' = "listen"
                /\ ifaces' = r.ifaces
                /\ UNCHANGED retErr
    /\ UNCHANGED <<bVars, optVars, ifVars, received, done, mu, runNo, sock, timer,
                   gpc, gloc, snap, ds, late>>

\* receive: net.ListenPacket on (group, port); it fails when the port does
\* not resolve, and may fail to bind
DListen ==
    /\ mpc = "listen"
    /\ \E bound \in BOOLEAN :
          IF PortResolves(options.Port) /\ bound
          THEN /\ sock' = [sock EXCEPT ![runNo].st = "open"]
               /\ mpc' = "atoi"
               /\ UNCHANGED retErr
          ELSE /\ mpc' = "returned"
               /\ retErr' = "listen failed"
               /\ UNCHANGED sock
    /\ UNCHANGED <<bVars, optVars, ifVars, received, done, mu, runNo, ifaces, timer,
                   gpc, gloc, snap, ds, late>>

\* receive: strconv.Atoi(port); on an error the deferred Close runs and the
\* error is returned
DAtoi ==
    /\ mpc = "atoi"
    /\ IF AtoiOk(options.Port)
       THEN /\ mpc' = "start"
            /\ UNCHANGED <<sock, retErr>>
       ELSE /\ sock' = [sock EXCEPT ![runNo] = Close(@)]
            /\ mpc' = "returned"
            /\ retErr' = "invalid port"
    /\ UNCHANGED <<bVars, optVars, ifVars, received, done, mu, runNo, ifaces, timer,
                   gpc, gloc, snap, ds, late>>

\* receive: the group is joined on every interface (errors dropped), the
\* timer is armed and the receive goroutine is started
DStart ==
    /\ mpc = "start"
    /\ timer' = [timer EXCEPT ![runNo] = "armed"]
    /\ gpc' = [gpc EXCEPT ![runNo] = "read"]
    /\ mpc' = "poll"
    /\ UNCHANGED <<bVars, optVars, ifVars, received, done, mu, runNo, ifaces, sock,
                   gloc, snap, ds, retErr, late>>

\* the process has not died of a detected concurrent map access
Alive == mpc # "crashed"

\* a datagram from one of the hosts, with one of the given bodies, reaches
\* the open socket of the running call. (A datagram that arrives before the
\* receive goroutine exists waits in the socket, as one that arrives just
\* after: only the latter is drawn.)
Arrive(bodies) ==
    /\ Alive
    /\ mpc = "poll"
    /\ sock[runNo].st = "open"
    /\ \E src \in SourcesOf(options), body \in bodies :
          sock' = [sock EXCEPT ![runNo].log = Append(@, [data |-> body, src |-> src])]
    /\ late' = (late \/ Elapsed(runNo))
    /\ UNCHANGED <<bVars, optVars, ifVars, received, done, mu, mpc, runNo, ifaces,
                   timer, gpc, gloc, snap, ds, retErr>>

\* any datagram, up to the bound
Deliver ==
    /\ Delivered < MaxDgrams
    /\ Arrive(Bodies(options.Payload.b))

\* the first datagram of a call, which holds the payload or the payload with
\* its last byte changed. (The receive goroutine reads one datagram per
\* call; what arrives after it stays unread until the socket is closed.)
DeliverFirst ==
    /\ runNo >= 1
    /\ sock[runNo].log = <<>>
    /\ Arrive({b \in Bodies(options.Payload.b) : Len(b) = Len(options.Payload.b)})

\* the mutation: done is made without a buffer, and (the waiting loop being
\* elsewhere) a send on it finds no room
HasRoom_Unbuffered(ch) == Len(ch) < 0

\* make(chan bool, 1): a send on done completes at once while the buffer
\* holds no value, and waits otherwise
HasRoom(ch) == Len(ch) < 1

\* the timer of run r fires and its function sends on done; when the buffer
\* is full the function waits
TimerFire(r) ==
    /\ Alive
    /\ timer[r] = "armed"
    /\ IF HasRoom(done)
       THEN /\ done' = Append(done, TRUE)
            /\ timer' = [timer EXCEPT ![r] = "sent"]
       ELSE /\ timer' = [timer EXCEPT ![r] = "sending"]
            /\ UNCHANGED done
    /\ late' = (late \/ (r = runNo /\ ~Quiet(r)))
    /\ UNCHANGED <<bVars, optVars, ifVars, received, mu, mpc, runNo, ifaces,
                   sock, gpc, gloc, snap, ds, retErr>>

\* d.done <- true in the timer's function, once the buffer has room
TimerSend(r) ==
    /\ Alive
    /\ timer[r] = "sending"
    /\ HasRoom(done)
    /\ done' = Append(done, TRUE)
    /\ timer' = [timer EXCEPT ![r] = "sent"]
    /\ UNCHANGED <<bVars, optVars, ifVars, received, mu, mpc, runNo, ifaces, sock,
                   gpc, gloc, snap, ds, retErr, late>>

\* the receive goroutine of run r: ReadFrom returns a datagram, or an error
\* once the socket is closed; then the payload test, and SplitHostPort on a
\* match
GRead(r) ==
    /\ Alive
    /\ gpc[r] = "read"
    /\ \/ /\ sock[r].st = "open"
          /\ Unread(r) # <<>>
          /\ LET dg == Unread(r)[1]
             IN  IF PayloadMatches(options, dg.data)
                 THEN /\ gloc' = [gloc EXCEPT ![r].srcHost = SplitHost(AddrString(dg.src))]
                      /\ gpc' = [gpc EXCEPT ![r] = "lock"]
                 ELSE /\ gpc' = [gpc EXCEPT ![r] = "exit"]
                      /\ UNCHANGED gloc
          /\ sock' = [sock EXCEPT ![r].rd = @ + 1]
       \/ /\ sock[r].st = "closed"
          /\ gloc' = [gloc EXCEPT ![r].err = "use of closed connection"]
          /\ gpc' = [gpc EXCEPT ![r] = "exit"]
          /\ UNCHANGED sock
    /\ UNCHANGED <<bVars, optVars, ifVars, received, done, mu, mpc, runNo, ifaces,
                   timer, snap, ds, retErr, late>>

\* the mutation: a failed ReadFrom is escalated, the goroutine goes on to
\* raise the completion signal
GReadFail_Signals(r) ==
    /\ Alive
    /\ gpc[r] = "read"
    /\ sock[r].st = "open"
    /\ gloc' = [gloc EXCEPT ![r].err = "read failed"]
    /\ gpc' = [gpc EXCEPT ![r] = "send"]
    /\ UNCHANGED <<bVars, optVars, ifVars, received, done, mu, mpc, runNo, ifaces,
                   sock, timer, snap, ds, retErr, late>>

\* ReadFrom fails on the open socket: n = 0 and an error, which is printed
GReadFail(r) ==
    /\ Alive
    /\ gpc[r] = "read"
    /\ sock[r].st = "open"
    /\ gloc' = [gloc EXCEPT ![r].err = "read failed"]
    /\ gpc' = [gpc EXCEPT ![r] = "exit"]
    /\ UNCHANGED <<bVars, optVars, ifVars, received, done, mu, mpc, runNo, ifaces,
                   sock, timer, snap, ds, retErr, late>>

\* if _, ok := m[k]; !ok { m[k] = byte('0') }
MapInsert(m, k) == IF k \in DOMAIN m THEN m ELSE m @@ (k :> 48)

\* d.Lock(), once the lock is free, and the insert made under it. (Nothing
\* tells a goroutine that holds the lock and has not written yet from one
\* that still waits for it, so the two statements are one step.)
GInsert(r) ==
    /\ Alive
    /\ gpc[r] = "lock"
    /\ mu = 0
    /\ mu' = r
    /\ received' = MapInsert(received, gloc[r].srcHost)
    /\ gloc' = [gloc EXCEPT ![r].srcHost = <<>>]
    /\ gpc' = [gpc EXCEPT ![r] = "unlock"]
    /\ UNCHANGED <<bVars, optVars, ifVars, done, mpc, runNo, ifaces, sock, timer,
                   snap, ds, retErr, late>>

\* d.Unlock()
GUnlock(r) ==
    /\ Alive
    /\ gpc[r] = "unlock"
    /\ mu' = 0
    /\ gpc' = [gpc EXCEPT ![r] = "limit"]
    /\ UNCHANGED <<bVars, optVars, ifVars, received, done, mpc, runNo, ifaces, sock,
                   timer, gloc, snap, ds, retErr, late>>

\* the mutation: the number of hosts is compared with the limit plus one
LimitReached_OffByOne(o, m) == o.Limit > 0 /\ o.Limit + 1 = Cardinality(DOMAIN m)

\* Limit > 0 && Limit == len(d.received)
LimitReached(o, m) == o.Limit > 0 /\ o.Limit = Cardinality(DOMAIN m)

\* the limit test, made after the lock was released
GLimit(r) ==
    /\ Alive
    /\ gpc[r] = "limit"
    /\ gpc' = [gpc EXCEPT ![r] = IF LimitReached(options, received)
                                  THEN "send" ELSE "exit"]
    /\ UNCHANGED <<bVars, optVars, ifVars, received, done, mu, mpc, runNo, ifaces,
                   sock, timer, gloc, snap, ds, retErr, late>>

\* the mutation: having signalled, the receive goroutine reads on
GSend_ReadOn(r) ==
    /\ Alive
    /\ gpc[r] = "send"
    /\ HasRoom(done)
    /\ done' = Append(done, TRUE)
    /\ gpc' = [gpc EXCEPT ![r] = "read"]
    /\ UNCHANGED <<bVars, optVars, ifVars, received, mu, mpc, runNo, ifaces, sock,
                   timer, gloc, snap, ds, retErr, late>>

\* d.done <- true in the receive goroutine: it waits while the buffer is
\* full; the goroutine ends having signalled
GSend(r) ==
    /\ Alive
    /\ gpc[r] = "send"
    /\ HasRoom(done)
    /\ done' = Append(done, TRUE)
    /\ gpc' = [gpc EXCEPT ![r] = "signalled"]
    /\ UNCHANGED <<bVars, optVars, ifVars, received, mu, mpc, runNo, ifaces, sock,
                   timer, gloc, snap, ds, retErr, late>>

\* the waiting loop finds a value on done: it leaves the loop, the deferred
\* Close runs and receive returns err, which is nil. (The default branch of
\* the select changes nothing.)
DPoll ==
    /\ mpc = "poll"
    /\ Len(done) > 0
    /\ done' = Tail(done)
    /\ sock' = [sock EXCEPT ![runNo] = Close(@)]
    /\ mpc' = "collect"
    /\ UNCHANGED <<bVars, optVars, ifVars, received, mu, runNo, ifaces, timer, gpc,
                   gloc, snap, ds, retErr, late>>

\* DiscoverBroadcast begins to range over d.received, without the lock
DRangeBegin ==
    /\ mpc = "collect"
    /\ snap' = received
    /\ mpc' = "ranging"
    /\ UNCHANGED <<bVars, optVars, ifVars, received, done, mu, runNo, ifaces, sock,
                   timer, gpc, gloc, ds, retErr, late>>

\* the orders in which a range loop may visit the keys of a map
Orders(keys) ==
    { f \in [1..Cardinality(keys) -> keys] :
        \A i, j \in 1..Cardinality(keys) : f[i] = f[j] => i = j }

\* ds = append(ds, &Discovered{host}) for the keys in the order visited
Collect(order) == [i \in 1..Len(order) |-> [Address |-> order[i]]]

\* the range loop ends and DiscoverBroadcast returns (ds, nil). When a
\* receive goroutine wrote the map meanwhile (a data race), the loop saw the
\* map either without or with the new entry.
DRangeEnd ==
    /\ mpc = "ranging"
    /\ \E m \in {snap, received} :
          \E order \in Orders(DOMAIN m) : ds' = Collect(order)
    /\ mpc' = "returned"
    /\ UNCHANGED <<bVars, optVars, ifVars, received, done, mu, runNo, ifaces, sock,
                   timer, gpc, gloc, snap, retErr, late>>

\* the other outcome of that data race: the runtime detects the concurrent
\* map iteration and map write, and the process dies
DRangeCrash ==
    /\ mpc = "ranging"
    /\ snap # received
    /\ mpc' = "crashed"
    /\ UNCHANGED <<bVars, optVars, ifVars, received, done, mu, runNo, ifaces, sock,
                   timer, gpc, gloc, snap, ds, retErr, late>>

\* what runs beside the caller: the timers and the receive goroutines
Tasks ==
    \/ \E r \in Runs : TimerFire(r)
    \/ \E r \in Runs : TimerSend(r)
    \/ \E r \in Runs : GRead(r)
    \/ \E r \in Runs : GReadFail(r)
    \/ \E r \in Runs : GInsert(r)
    \/ \E r \in Runs : GUnlock(r)
    \/ \E r \in Runs : GLimit(r)
    \/ \E r \in Runs : GSend(r)

\* the steps of a call of DiscoverBroadcast after its first
Body ==
    \/ DFilter
    \/ DListen
    \/ DAtoi
    \/ DStart
    \/ DPoll
    \/ DRangeBegin
    \/ DRangeEnd
    \/ DRangeCrash

\* a fresh Discover on which DiscoverBroadcast is called once
Next == Call(1) \/ Body \/ Deliver \/ Tasks

Spec == Init /\ [][Next]_vars

\* the scheduler runs the caller of DiscoverBroadcast, whose waiting loop
\* polls done without end, and a goroutine whose send on done has room
FairD ==
    /\ WF_vars(DPoll \/ DRangeBegin \/ DRangeEnd)
    /\ WF_vars(TimerSend(1))
    /\ WF_vars(GSend(1))

\* the Options values of the runs whose completion is studied: a limit that
\* one host reaches, and one that it does not
SignalInputs ==
    [ Limit            : {0, 1, 2},
      TimeLimit        : {0},
      IPVersion        : {0, IPv6},
      Duration         : {0},
      BroadcastDelay   : {0},
      Payload          : {NilBytes},
      Port             : {<<>>},
      MulticastAddress : {""},
      payloadLen       : {0} ]

InitSignal ==
    /\ options \in SignalInputs
    /\ optHist = <<options>>
    /\ allIfaces = <<HostLo, HostEth>>
    /\ ifErr = FALSE
    /\ ipv4 = TRUE
    /\ filtered = NotFiltered
    /\ NewDiscover
    /\ NoBroadcast

SpecFair == InitSignal /\ [][Next]_vars /\ FairD

\* a Discover on which DiscoverBroadcast is called again after it returned:
\* the map, the channel, the timers and the goroutines of the earlier calls
\* are still there
ReuseInputs ==
    [ Limit            : {0, 2},
      TimeLimit        : {0},
      IPVersion        : {0, IPv6},
      Duration         : {0},
      BroadcastDelay   : {0},
      Payload          : {NilBytes},
      Port             : {<<>>},
      MulticastAddress : {""},
      payloadLen       : {0} ]

InitReuse ==
    /\ options \in ReuseInputs
    /\ optHist = <<options>>
    /\ allIfaces = <<HostLo, HostEth>>
    /\ ifErr = FALSE
    /\ ipv4 = TRUE
    /\ filtered = NotFiltered
    /\ NewDiscover
    /\ NoBroadcast

NextReuse == Call(MaxRuns) \/ Body \/ DeliverFirst \/ Tasks

SpecReuse == InitReuse /\ [][NextReuse]_vars

-----------------------------------------------------------------------------
(* The Broadcaster (discovery.go) *)

\* b.quit is an unbuffered channel: a send on it completes in the step in
\* which the send loop receives, and waits until then. The senders are the
\* duration timer's function and the callers of StopBroadcast.

\* the Options values the Broadcaster is created with
BroadcastInputs ==
    [ Limit            : {0},
      TimeLimit        : {0},
      IPVersion        : {0, IPv6},
      Duration         : {(-2) * Second, 0, 3 * Second},
      BroadcastDelay   : {0},
      Payload          : {NilBytes},
      Port             : {<<>>, <<"d", "o", "m", "a", "i", "n">>, <<"x">>},
      MulticastAddress : {""},
      payloadLen       : {0} ]

\* a second Ethernet interface, with an IPv4 address only
HostEth2 == [Name |-> "eth2", Flags |-> FlagUp + FlagBroadcast,
             Addrs |-> <<Addr(IP4a)>>]
BHostTables == {<<HostLo>>, <<HostLo, HostEth, HostEth2>>}

InitB ==
    /\ boptions \in BroadcastInputs
    /\ NewBroadcast
    /\ allIfaces \in BHostTables
    /\ ifErr \in BOOLEAN
    /\ ipv4 = TRUE
    /\ filtered = NotFiltered
    /\ NoDiscover

\* StartBroadcast is called (by the caller, or by the goroutine StartAsSync
\* starts): initOptions
BCall ==
    /\ bpc = "idle"
    /\ boptions' = initOptions(boptions)
    /\ boptHist' = Append(boptHist, boptions')
    /\ bpc' = "filter"
    /\ UNCHANGED <<optVars, ifVars, dVars, bifaces, bsock, bretErr, joined,
                   btimer, spc, ticks, lastTick>>

\* FilterInterfaces: an enumeration error is returned, and an empty
\* selection is an error of its own
BFilter ==
    /\ bpc = "filter"
    /\ LET r == FilterInterfaces(allIfaces, ifErr, boptions.IPVersion = IPv4)
       IN  /\ bifaces' = r.ifaces
           /\ IF r.err # "nil"
              THEN bpc' = "returned" /\ bretErr' = r.err
              ELSE IF Len(r.ifaces) = 0
              THEN bpc' = "returned" /\ bretErr' = "no multicast interface found"
              ELSE bpc' = "listen" /\ UNCHANGED bretErr
    /\ UNCHANGED <<optVars, ifVars, dVars, boptions, boptHist, bsock, joined,
                   btimer, spc, ticks, lastTick>>

\* net.ListenPacket on (group, port)
BListen ==
    /\ bpc = "listen"
    /\ \E bound \in BOOLEAN :
          IF PortResolves(boptions.Port) /\ bound
          THEN bsock' = "open" /\ bpc' = "atoi" /\ UNCHANGED bretErr
          ELSE bpc' = "returned" /\ bretErr' = "listen failed" /\ UNCHANGED bsock
    /\ UNCHANGED <<optVars, ifVars, dVars, boptions, boptHist, bifaces, joined,
                   btimer, spc, ticks, lastTick>>

\* strconv.Atoi(port); on an error the deferred Close runs
BAtoi ==
    /\ bpc = "atoi"
    /\ IF AtoiOk(boptions.Port)
       THEN bpc' = "join" /\ UNCHANGED <<bsock, bretErr>>
       ELSE bsock' = "closed" /\ bpc' = "returned" /\ bretErr' = "invalid port"
    /\ UNCHANGED <<optVars, ifVars, dVars, boptions, boptHist, bifaces, joined,
                   btimer, spc, ticks, lastTick>>

\* the mutation: every duration other than zero arms the timer
SelfStops_NonZero(o) == o.Duration # 0

\* if b.Options.Duration > 0: the duration timer is armed
SelfStops(o) == o.Duration > 0

\* JoinGroup on every selected interface, where it may fail (the error is
\* printed); the ticker is created; the duration timer is armed if asked for
BJoin ==
    /\ bpc = "join"
    /\ joined' \in SUBSET (1..Len(bifaces))
    /\ btimer' = IF SelfStops(boptions) THEN "armed" ELSE "off"
    /\ bpc' = "loop"
    /\ UNCHANGED <<optVars, ifVars, dVars, boptions, boptHist, bifaces, bsock,
                   bretErr, spc, ticks, lastTick>>

\* what a tick does on one interface, given which calls fail there:
\* SetMulticastInterface, then SetMulticastTTL(2), whose error is dropped,
\* then WriteTo
TickOn(fail) ==
    IF "setif" \in fail
    THEN [calls |-> <<"setif">>, setif |-> FALSE, ttl |-> 0, wrote |-> FALSE]
    ELSE [calls |-> <<"setif", "ttl", "write">>, setif |-> TRUE,
          ttl |-> IF "ttl" \in fail THEN 0 ELSE 2,
          wrote |-> "write" \notin fail]

\* an interface the loop did not get to
NoCalls == [calls |-> <<>>, setif |-> FALSE, ttl |-> 0, wrote |-> FALSE]

\* the mutation: the first failing call of a tick ends the loop over the
\* interfaces (break in the place of continue)
TickAll_Break(n, fails) ==
    [i \in 1..n |-> IF \E j \in 1..(i - 1) : fails[j] \cap {"setif", "write"} # {}
                    THEN NoCalls
                    ELSE TickOn(fails[i])]

\* for i := range ifaces: a failing SetMulticastInterface or WriteTo goes on
\* to the next interface
TickAll(n, fails) == [i \in 1..n |-> TickOn(fails[i])]

\* case <-ticker.C: the payload is sent on every selected interface in turn
BTick ==
    /\ bpc = "loop"
    /\ ticks < MaxTicks
    /\ \E fails \in [1..Len(bifaces) -> SUBSET {"setif", "ttl", "write"}] :
          lastTick' = TickAll(Len(bifaces), fails)
    /\ ticks' = ticks + 1
    /\ UNCHANGED <<optVars, ifVars, dVars, boptions, boptHist, bpc, bifaces,
                   bsock, bretErr, joined, btimer, spc>>

\* the duration timer fires: its function begins to send on quit
BTimerFire ==
    /\ btimer = "armed"
    /\ btimer' = "sending"
    /\ UNCHANGED <<optVars, ifVars, dVars, boptions, boptHist, bpc, bifaces,
                   bsock, bretErr, joined, spc, ticks, lastTick>>

\* StopBroadcast is called: it begins to send on quit. (A call made before
\* StartBroadcast waits as one made just after it: only the latter is drawn.)
StopCall(c) ==
    /\ bpc # "idle"
    /\ spc[c] = "idle"
    /\ spc' = [spc EXCEPT ![c] = "sending"]
    /\ UNCHANGED <<optVars, ifVars, dVars, boptions, boptHist, bpc, bifaces,
                   bsock, bretErr, joined, btimer, ticks, lastTick>>

\* case <-b.quit, the sender being the timer's function: the loop is left,
\* the deferred Close runs, StartBroadcast returns nil
BQuitTimer ==
    /\ bpc = "loop"
    /\ btimer = "sending"
    /\ btimer' = "sent"
    /\ bpc' = "returned"
    /\ bsock' = "closed"
    /\ bretErr' = "nil"
    /\ UNCHANGED <<optVars, ifVars, dVars, boptions, boptHist, bifaces, joined,
                   spc, ticks, lastTick>>

\* case <-b.quit, the sender being caller c of StopBroadcast, which returns
BQuitStop(c) ==
    /\ bpc = "loop"
    /\ spc[c] = "sending"
    /\ spc' = [spc EXCEPT ![c] = "returned"]
    /\ bpc' = "returned"
    /\ bsock' = "closed"
    /\ bretErr' = "nil"
    /\ UNCHANGED <<optVars, ifVars, dVars, boptions, boptHist, bifaces, joined,
                   btimer, ticks, lastTick>>

NextB ==
    \/ BCall
    \/ BFilter
    \/ BListen
    \/ BAtoi
    \/ BJoin
    \/ BTick
    \/ BTimerFire
    \/ BQuitTimer
    \/ \E c \in Stoppers : StopCall(c)
    \/ \E c \in Stoppers : BQuitStop(c)

SpecB == InitB /\ [][NextB]_vars

\* the scheduler runs StartBroadcast and the timer's function, the timer
\* fires once its duration has passed, and a select that is offered quit
\* again and again takes it
FairB ==
    /\ WF_vars(BCall \/ BFilter \/ BListen \/ BAtoi \/ BJoin)
    /\ WF_vars(BTimerFire)
    /\ WF_vars(BQuitTimer)
    /\ \A c \in Stoppers : WF_vars(BQuitStop(c))

SpecBFair == SpecB /\ FairB

-----------------------------------------------------------------------------
(* A Broadcaster on host A and a Discoverer on host B of the same subnet *)

\* the Options value both are created with: the same payload, group, port
\* and IP version, and a limit of 1
RoundTripInputs ==
    [ Limit            : {1},
      TimeLimit        : {0},
      IPVersion        : {0, IPv6},
      Duration         : {0, 3 * Second},
      BroadcastDelay   : {0},
      Payload          : {NilBytes},
      Port             : {<<>>, <<"d", "o", "m", "a", "i", "n">>},
      MulticastAddress : {""},
      payloadLen       : {0} ]

\* the source address B sees on a datagram of A: A's interface address (for
\* IPv6 a link-local one, with B's zone) and the port A's socket is bound to
SrcA(o) == IF o.IPVersion = IPv4
           THEN Src(<<"1", ".", "1">>, 7, <<>>)
           ELSE Src(<<"f", ":", ":", "1">>, 7, <<"e">>)

\* both hosts have the same interface table
InitRT ==
    /\ options \in RoundTripInputs
    /\ optHist = <<options>>
    /\ boptions = options
    /\ NewBroadcast
    /\ allIfaces = <<HostLo, HostEth>>
    /\ ifErr = FALSE
    /\ ipv4 = TRUE
    /\ filtered = NotFiltered
    /\ NewDiscover

\* case <-ticker.C on host A, B listening: the subnet of B is that of A's
\* first selected interface, and nothing is lost on it, so the payload
\* written there reaches B's socket once B is in its receive cycle
BTickHeard ==
    /\ bpc = "loop"
    /\ ticks < MaxTicks
    /\ \E fails \in [1..Len(bifaces) -> SUBSET {"setif", "ttl", "write"}] :
          LET tick == TickAll(Len(bifaces), fails)
          IN  /\ lastTick' = tick
              /\ IF tick[1].wrote /\ mpc = "poll" /\ sock[runNo].st = "open"
                 THEN /\ sock' = [sock EXCEPT ![runNo].log =
                                     Append(@, [data |-> boptions.Payload.b,
                                                src |-> SrcA(boptions)])]
                      /\ late' = (late \/ Elapsed(runNo))
                 ELSE UNCHANGED <<sock, late>>
    /\ ticks' = ticks + 1
    /\ UNCHANGED <<optVars, ifVars, boptions, boptHist, bpc, bifaces, bsock,
                   bretErr, joined, btimer, spc, received, done, mu, mpc,
                   runNo, ifaces, timer, gpc, gloc, snap, ds, retErr>>

\* StartBroadcast on A, its duration timer, and one caller of StopBroadcast
BodyB ==
    \/ BCall
    \/ BFilter
    \/ BListen
    \/ BAtoi
    \/ BJoin
    \/ BTickHeard
    \/ BTimerFire
    \/ BQuitTimer
    \/ StopCall(1)
    \/ BQuitStop(1)

NextRT == BodyB \/ Call(1) \/ Body \/ Tasks

SpecRT == InitRT /\ [][NextRT]_vars

\* the scheduler runs the caller of DiscoverBroadcast, the receive goroutine
\* and the timer's function, and the timer fires once the time limit has
\* passed; how often the Broadcaster ticks is left open
FairRT ==
    /\ WF_vars(DFilter \/ DListen \/ DAtoi \/ DStart \/ DPoll \/ DRangeBegin \/ DRangeEnd)
    /\ WF_vars(TimerFire(1) \/ TimerSend(1))
    /\ WF_vars(GRead(1) \/ GInsert(1) \/ GUnlock(1) \/ GLimit(1) \/ GSend(1))

SpecRTFair == SpecRT /\ FairRT

-----------------------------------------------------------------------------
(* What the claims speak of *)

\* a datagram matches payload p as the specification has it: it is at least
\* as long as p and its first Len(p) bytes are those of p
SpecMatches(p, data) ==
    /\ Len(data) >= Len(p)
    /\ \A i \in 1..Len(p) : data[i] = p[i]

\* the host of a source as the caller of DiscoverBroadcast is to see it:
\* the address, with its zone if it has one, and no port
HostOf(a) == IF a.Zone # <<>> THEN a.IP \o <<"%">> \o a.Zone ELSE a.IP
\* the datagrams that reached the socket of call r
Log(r) == sock[r].log
\* the hosts that sent a payload-matching datagram to call r
MatchingHosts(r) ==
    { HostOf(Log(r)[i].src) :
        i \in { j \in 1..Len(Log(r)) : SpecMatches(options.Payload.b, Log(r)[j].data) } }
\* every datagram call r got is a matching one
OnlyMatching(r) ==
    \A i \in 1..Len(Log(r)) : SpecMatches(options.Payload.b, Log(r)[i].data)
\* the addresses of the result
Addresses == { ds[i].Address : i \in 1..Len(ds) }
\* the first call is under way or over, on a socket it opened, and no
\* ReadFrom of it has failed
FirstCallReceiving ==
    /\ runNo = 1
    /\ sock[1].st # "none"
    /\ gpc[1] # "off"
    /\ gloc[1].err = "nil"

-----------------------------------------------------------------------------
(* C1: limit-triggered termination. On a fresh Discoverer with limit K >= 1,
   once K distinct hosts have each sent a matching datagram (and nothing
   else has arrived) in time, the receive task raises the completion signal
   with K hosts in the accumulator before the time limit elapses, and a
   call that has returned returns exactly K peers. *)
C1_LimitTermination ==
    ( /\ FirstCallReceiving
      /\ options.Limit >= 1
      /\ OnlyMatching(1)
      /\ Cardinality(MatchingHosts(1)) = options.Limit
      /\ ~late
      /\ Elapsed(1) )
    => /\ gpc[1] = "signalled"
       /\ Cardinality(DOMAIN received) = options.Limit
       /\ mpc = "returned" => Len(ds) = options.Limit

-----------------------------------------------------------------------------
(* C2: time-limit-triggered termination. When the caller's limit is 0 or
   fewer hosts than the limit sent matching datagrams, and all of them came
   in time, a call that has returned returned after the time limit elapsed
   and its result holds exactly the hosts that sent a matching datagram. *)
C2_TimeLimitTermination ==
    ( /\ FirstCallReceiving
      /\ mpc = "returned"
      /\ ~late
      /\ \/ optHist[1].Limit = 0
         \/ Cardinality(MatchingHosts(1)) < options.Limit )
    => /\ Elapsed(1)
       /\ Addresses = MatchingHosts(1)
       /\ Len(ds) = Cardinality(MatchingHosts(1))

-----------------------------------------------------------------------------
(* C3: a limit of 0 given by the caller means unlimited: no receive task
   ever raises, or is about to raise, the completion signal because of the
   number of hosts collected. *)
C3_ZeroLimitUnlimited ==
    optHist[1].Limit = 0 => \A r \in Runs : gpc[r] \notin {"send", "signalled"}

-----------------------------------------------------------------------------
(* C4: deduplication. The keys of the accumulator are exactly the hosts
   (port stripped) whose matching datagram a receive task has recorded, one
   key per host however many datagrams and source ports the host used; and
   a result returned without error lists each host once: every host that
   was in the accumulator when the result loop began, and only hosts of the
   accumulator. *)
Recorded(r) ==
    /\ sock[r].rd >= 1
    /\ SpecMatches(options.Payload.b, Log(r)[1].data)
    /\ gpc[r] \in {"unlock", "limit", "send", "signalled", "exit"}
RecordedHosts == { HostOf(Log(r)[1].src) : r \in { q \in Runs : Recorded(q) } }

C4_Dedup ==
    /\ DOMAIN received = RecordedHosts
    /\ (mpc = "returned" /\ retErr = "nil") =>
          /\ \A i, j \in 1..Len(ds) : ds[i].Address = ds[j].Address => i = j
          /\ DOMAIN snap \subseteq Addresses
          /\ Addresses \subseteq DOMAIN received

\* two calls each recorded a matching datagram of the same host, sent from
\* two ports, and the second call returned that host once
C4_Witness ==
    /\ runNo = 2
    /\ Recorded(1)
    /\ Recorded(2)
    /\ Log(1)[1].src.IP = Log(2)[1].src.IP
    /\ Log(1)[1].src.Port # Log(2)[1].src.Port
    /\ mpc = "returned"
    /\ Len(ds) = 1
    /\ Cardinality(DOMAIN received) = 1

-----------------------------------------------------------------------------
(* C5: payload matching. A receive task goes on to record the source only
   of a datagram that is at least as long as the payload and whose first
   bytes are the payload's. *)
C5_PayloadMatching ==
    \A r \in Runs :
        gpc[r] \in {"lock", "unlock", "limit", "send", "signalled"} =>
            SpecMatches(options.Payload.b, Log(r)[sock[r].rd].data)

-----------------------------------------------------------------------------
(* C6: Broadcaster duration semantics. With a duration the caller left
   unset or set to a value <= 0, the send loop is left only when a caller of
   StopBroadcast has been received from; with a duration > 0 it is left only
   then or when the duration timer's signal has been received, and it is
   eventually left even when nobody calls StopBroadcast. *)
LoopExited == bpc = "returned" /\ bretErr = "nil" /\ bsock = "closed"
Stopped == \E c \in Stoppers : spc[c] = "returned"

C6_ExitOnlyOnSignal ==
    LoopExited => \/ Stopped
                  \/ (boptHist[1].Duration > 0 /\ btimer = "sent")

C6_DurationSemantics ==
    /\ []C6_ExitOnlyOnSignal
    /\ (bpc = "loop" /\ boptHist[1].Duration > 0) ~> LoopExited

\* the loop of a Broadcaster with a positive duration was left on the
\* timer's signal, StopBroadcast never having been called
C6_Witness ==
    /\ LoopExited
    /\ boptHist[1].Duration > 0
    /\ btimer = "sent"
    /\ \A c \in Stoppers : spc[c] = "idle"
    /\ ticks = MaxTicks

-----------------------------------------------------------------------------
(* C7: StopBroadcast called once after StartBroadcast was invoked returns:
   there is no state in which the one caller of StopBroadcast waits on the
   stop signal while StartBroadcast has returned and will never receive. *)
C7_StopReturns ==
    \A c \in Stoppers :
        (spc[c] = "sending" /\ \A c2 \in Stoppers \ {c} : spc[c2] = "idle")
            => bpc # "returned"

-----------------------------------------------------------------------------
(* C8: option resolution is idempotent, keeps every field the caller set to
   a value other than its zero value, and leaves payloadLen equal to the
   length of Payload. *)
ExplicitKept(o, r) ==
    /\ o.Limit # 0 => r.Limit = o.Limit
    /\ o.TimeLimit # 0 => r.TimeLimit = o.TimeLimit
    /\ o.IPVersion # 0 => r.IPVersion = o.IPVersion
    /\ o.Duration # 0 => r.Duration = o.Duration
    /\ o.BroadcastDelay # 0 => r.BroadcastDelay = o.BroadcastDelay
    /\ ~o.Payload.nil => r.Payload = o.Payload
    /\ o.Port # <<>> => r.Port = o.Port
    /\ o.MulticastAddress # "" => r.MulticastAddress = o.MulticastAddress

C8_ResolveIdempotent ==
    /\ Len(optHist) >= 2 =>
          /\ ExplicitKept(optHist[1], optHist[2])
          /\ optHist[2].payloadLen = Len(optHist[2].Payload.b)
    /\ \A i \in 2..(Len(optHist) - 1) : optHist[i + 1] = optHist[i]

\* a caller-set negative limit and a set payload went through two resolutions
C8_Witness ==
    /\ Len(optHist) >= 3
    /\ optHist[1].Limit = -1
    /\ optHist[1].Payload = Bytes(<<1, 0>>)
    /\ optHist[1].payloadLen = 5
    /\ optHist[1].MulticastAddress = ""
    /\ optHist[1].IPVersion = IPv6

-----------------------------------------------------------------------------
(* C9: when the selector returns no interface and no error, StartBroadcast
   and DiscoverBroadcast each return a non-nil error, and neither has opened
   a socket. *)
C9_NoInterfaceError ==
    /\ (bpc = "returned" /\ ~ifErr /\ bifaces = <<>>) =>
          (bretErr # "nil" /\ bsock = "none")
    /\ (mpc = "returned" /\ runNo = 1 /\ ~ifErr /\ ifaces = <<>>) =>
          (retErr # "nil" /\ sock[1].st = "none")

-----------------------------------------------------------------------------
(* C10: FilterInterfaces returns exactly the interfaces that are up, have
   the broadcast flag and have at least one (non-nil) address of the wanted
   family, each once and in the order of the table; on an enumeration error
   it returns none. *)
Wanted(iface) ==
    /\ HasFlag(iface.Flags, FlagUp)
    /\ HasFlag(iface.Flags, FlagBroadcast)
    /\ \E j \in 1..Len(iface.Addrs) :
          /\ ~iface.Addrs[j].isNil
          /\ Len(iface.Addrs[j].IP) \in {4, 16}
          /\ (iface.Addrs[j].IP \in {IP4a, IP4in6}) = ipv4

C10_FilterExact ==
    (filtered.called /\ ~ifErr) =>
        /\ filtered.res.err = "nil"
        /\ \A i \in 1..Len(allIfaces) :
              Wanted(allIfaces[i]) <=>
                 (\E k \in 1..Len(filtered.res.ifaces) : filtered.res.ifaces[k] = allIfaces[i])
        /\ \A k \in 1..Len(filtered.res.ifaces) :
              /\ \E i \in 1..Len(allIfaces) : filtered.res.ifaces[k] = allIfaces[i]
              /\ \A l \in 1..Len(filtered.res.ifaces) :
                    (filtered.res.ifaces[k].Name = filtered.res.ifaces[l].Name) => k = l

\* the selector ran on a table holding an interface that is up without
\* broadcast, and one it has to return
C10_Witness ==
    /\ filtered.called
    /\ ~ifErr
    /\ ~ipv4
    /\ Len(filtered.res.ifaces) = 1
    /\ \E i \in 1..Len(allIfaces) : allIfaces[i].Flags = UpNoBroadcast
    /\ \E i \in 1..Len(allIfaces) :
          /\ allIfaces[i].Flags = FlagUp + FlagBroadcast
          /\ allIfaces[i].Addrs = <<Addr(IP6a), Addr(IP4a)>>

-----------------------------------------------------------------------------
(* C11: round trip. A Broadcaster on host A and a Discoverer on host B with
   the same payload, group, port and IP version and a limit of 1: once a
   datagram of A has reached B's socket before B's timer fired (and was
   processed before it fired, and no read failed), the call on B eventually
   returns, and when it has returned it returned without error exactly one
   peer, A's source address, on the receive task's signal and not on the
   timer's. *)
HeardInTime ==
    /\ runNo = 1
    /\ Len(Log(1)) >= 1
    /\ gloc[1].err = "nil"
    /\ ~late

C11_OnePeer ==
    (HeardInTime /\ mpc = "returned") =>
        /\ retErr = "nil"
        /\ ds = <<[Address |-> HostOf(SrcA(options))]>>
        /\ gpc[1] = "signalled"
        /\ timer[1] = "sent" => Len(done) = 1

C11_RoundTrip ==
    /\ []C11_OnePeer
    /\ HeardInTime ~> (mpc = "returned" \/ ~HeardInTime)

\* B returned A's link-local address, with the zone, before its timer fired
C11_Witness ==
    /\ HeardInTime
    /\ mpc = "returned"
    /\ options.IPVersion = IPv6
    /\ ds = <<[Address |-> <<"f", ":", ":", "1", "%", "e">>]>>
    /\ timer[1] = "armed"
    /\ bpc = "loop"

-----------------------------------------------------------------------------
(* C12: lock discipline. A receive task that has made its insert and has
   yet to make its size check against the limit holds the Discoverer's
   lock: the insert and the size check are both made under the lock. *)
C12_LockDiscipline ==
    \A r \in Runs : gpc[r] \in {"unlock", "limit"} => mu = r

-----------------------------------------------------------------------------
(* C13: no live writer during the final collection. While DiscoverBroadcast
   ranges over the accumulator, no receive task is at the point where it
   will still insert into it. *)
C13_NoLiveWriter ==
    mpc = "ranging" => \A r \in Runs : gpc[r] # "lock"

-----------------------------------------------------------------------------
(* C14: the Broadcaster's stop signal raised more than once. When the send
   loop has been left and the signal was raised at least twice (by the
   duration timer and StopBroadcast, or by two calls of StopBroadcast), no
   raiser is left waiting to send it. *)
Raisers ==
    Cardinality({c \in Stoppers : spc[c] # "idle"})
        + (IF btimer \in {"sending", "sent"} THEN 1 ELSE 0)

C14_NoBlockedRaiser ==
    (LoopExited /\ Raisers >= 2) =>
        /\ btimer # "sending"
        /\ \A c \in Stoppers : spc[c] # "sending"

-----------------------------------------------------------------------------
(* C15: the Discoverer's completion signal raised more than once. In the
   one run of a fresh Discoverer, once the waiting loop has been left
   exactly one signal has been consumed; a receive task or a timer waiting
   to send the signal eventually has sent it; and once both have raised it
   the call eventually returns (unless the process has died of the
   concurrent map access of the result loop). *)
SignalsSent ==
    (IF timer[1] = "sent" THEN 1 ELSE 0) + (IF gpc[1] = "signalled" THEN 1 ELSE 0)
LoopLeft == runNo = 1 /\ timer[1] # "off" /\ mpc \in {"collect", "ranging", "returned", "crashed"}
BothRaised == timer[1] \in {"sending", "sent"} /\ gpc[1] \in {"send", "signalled"}

C15_OneConsumed == LoopLeft => SignalsSent - Len(done) = 1

C15_DoubleSignal ==
    /\ []C15_OneConsumed
    /\ (gpc[1] = "send") ~> (gpc[1] = "signalled" \/ ~Alive)
    /\ (timer[1] = "sending") ~> (timer[1] = "sent" \/ ~Alive)
    /\ BothRaised ~> (mpc = "returned" \/ ~Alive)

\* the timer and the receive task both sent the signal, the call consumed
\* one and returned, the other is in the buffer
C15_Witness ==
    /\ mpc = "returned"
    /\ timer[1] = "sent"
    /\ gpc[1] = "signalled"
    /\ Len(done) = 1
    /\ Len(ds) = 1

-----------------------------------------------------------------------------
(* C16: with a port that is not numeric, StartBroadcast and
   DiscoverBroadcast return an error and no socket is ever opened: the
   check of the port comes before the creation of the socket. *)
C16_PortCheckFirst ==
    /\ (Len(optHist) >= 2 /\ ~AtoiOk(options.Port)) =>
          /\ \A r \in Runs : sock[r].st = "none"
          /\ mpc = "returned" => retErr # "nil"
    /\ (Len(boptHist) >= 2 /\ ~AtoiOk(boptions.Port)) =>
          /\ bsock = "none"
          /\ bpc = "returned" => bretErr # "nil"

-----------------------------------------------------------------------------
(* C17: per-interface failures are not fatal in the Broadcaster. No return
   of StartBroadcast with an error follows a group join; a tick calls
   SetMulticastInterface on every selected interface and, where that
   succeeded, SetMulticastTTL and WriteTo, whatever failed on the interfaces
   before; and after a tick the loop goes on until a stop signal arrives. *)
TickComplete ==
    /\ Len(lastTick) = Len(bifaces)
    /\ \A i \in 1..Len(lastTick) :
          /\ Len(lastTick[i].calls) >= 1
          /\ lastTick[i].calls[1] = "setif"
          /\ lastTick[i].setif => lastTick[i].calls = <<"setif", "ttl", "write">>

C17_InterfaceFailuresNotFatal ==
    /\ bretErr # "nil" => (joined = {} /\ ticks = 0)
    /\ ticks > 0 =>
          /\ TickComplete
          /\ bpc = "loop" \/ (LoopExited /\ (Stopped \/ btimer = "sent"))

\* the join failed on the first of two interfaces; in the last tick
\* SetMulticastInterface failed on the first and the payload was written on
\* the second, and the loop goes on
C17_Witness ==
    /\ bpc = "loop"
    /\ Len(bifaces) = 2
    /\ joined = {2}
    /\ ticks = MaxTicks
    /\ ~lastTick[1].setif
    /\ lastTick[2].wrote
    /\ lastTick[2].ttl = 2

-----------------------------------------------------------------------------
(* C18: a receive error does not end the run. When ReadFrom of the receive
   task of a fresh Discoverer's call returned an error (and no bytes), the
   task records no peer and does not raise the completion signal; the
   waiting loop is left only once the timer has fired; and the call returns
   the accumulator as it was, empty, with a nil error. *)
ReadFailed == runNo = 1 /\ gloc[1].err # "nil"

C18_ReceiveErrorNotFatal ==
    ReadFailed =>
        /\ gpc[1] = "exit"
        /\ received = <<>>
        /\ mpc \in {"collect", "ranging", "returned"} => timer[1] = "sent"
        /\ mpc = "returned" => (retErr = "nil" /\ ds = <<>>)

\* ReadFrom failed on the open socket while a datagram was waiting, and the
\* call returned at the time limit
C18_Witness ==
    /\ ReadFailed
    /\ gloc[1].err = "read failed"
    /\ Len(Log(1)) >= 1
    /\ mpc = "returned"
    /\ timer[1] = "sent"

-----------------------------------------------------------------------------
(* C19: socket release. When StartBroadcast has returned its socket is not
   open, and when receive has returned (DiscoverBroadcast is at its result
   loop or has returned) its socket is not open. *)
ReceiveReturned(r) ==
    r < runNo \/ (r = runNo /\ mpc \in {"collect", "ranging", "returned", "crashed"})

C19_SocketReleased ==
    /\ bpc = "returned" => bsock # "open"
    /\ \A r \in Runs : ReceiveReturned(r) => sock[r].st # "open"

\* StartBroadcast opened a socket and returned on StopBroadcast, and
\* DiscoverBroadcast opened one and returned on its time limit
C19_Witness ==
    /\ bpc = "returned"
    /\ bsock = "closed"
    /\ spc[1] = "returned"
    /\ mpc = "returned"
    /\ sock[1].st = "closed"
    /\ timer[1] = "sent"
    /\ gpc[1] = "exit"

-----------------------------------------------------------------------------
(* C20: the bound on the result. On a fresh Discoverer whose resolved limit
   L is positive the accumulator never holds more than L hosts, and the
   result never more than L peers. *)
C20_AtMostLimit ==
    (Len(optHist) >= 2 /\ options.Limit > 0) =>
        /\ Cardinality(DOMAIN received) <= options.Limit
        /\ Len(ds) <= options.Limit

\* two hosts sent the payload to a Discoverer of limit 1, which returned one
C20_Witness ==
    /\ options.Limit = 1
    /\ mpc = "returned"
    /\ Len(Log(1)) = 2
    /\ Cardinality(MatchingHosts(1)) = 2
    /\ Len(ds) = 1

=============================================================================
